---- MODULE Spec2Model ----
(***************************************************************************)
(* Model of the markdown-embedded flashcard metadata store                 *)
(* (internal/files.go, internal/utils.go).                                 *)
(*                                                                         *)
(* Text is modelled at token level.  A line is a record [h, toks]: h is    *)
(* the number of leading '#' characters and toks the rest of the line as   *)
(* a sequence of tokens:                                                   *)
(*   [k |-> "sp"]            one space                                     *)
(*   [k |-> "w", s |-> ..]   a word (no space, no '#', no comment marker)  *)
(*   [k |-> "c", id, box, due, en, ws]                                     *)
(*        the closed comment <!--[ ]id;box;due[;en][ ]-->, id a tuple of   *)
(*        characters, box a tuple of decimal digits, due <<y, m, d>>, en   *)
(*        one of "", "true", "false", ws the optional inner whitespace     *)
(*   [k |-> "stray"]         the closed comment <!--note-->                *)
(*   [k |-> "open", id, box, due, en]                                      *)
(*        the same text without its closing -->                            *)
(* The file content is the sequence of its lines as split at "\n" (never   *)
(* empty: the empty content is one empty line).  Lines carry no "\r".      *)
(***************************************************************************)
EXTENDS Integers, Sequences, FiniteSets, TLC

VARIABLES disk, cards, res, last, upd, nUpd, share, closest

vars == <<disk, cards, res, last, upd, nUpd, share, closest>>

\* ---------------------------------------------------------------- bounds
MaxLines == 3
MaxDraws == 2
MaxUpdates == 1
MaxCards == 3

\* ------------------------------------------------------- program constants
IdLen == 4

\* ----------------------------------------------------------------- tokens
Sp == [k |-> "sp"]
Word(w) == [k |-> "w", s |-> w]
Comment(id, box, due, en, ws) ==
    [k |-> "c", id |-> id, box |-> box, due |-> due, en |-> en, ws |-> ws]
Stray == [k |-> "stray"]
Unclosed(id, box, due, en) ==
    [k |-> "open", id |-> id, box |-> box, due |-> due, en |-> en]

Line(h, toks) == [h |-> h, toks |-> toks]
EmptyLine == Line(0, <<>>)

\* ------------------------------------------------------------------ dates
Today == <<2026, 11, 5>>
ZeroDate == <<1, 1, 1>>

Before(a, b) ==
    \/ a[1] < b[1]
    \/ a[1] = b[1] /\ a[2] < b[2]
    \/ a[1] = b[1] /\ a[2] = b[2] /\ a[3] < b[3]

IsZero(d) == d = ZeroDate

IsLeap(y) == (y % 4 = 0 /\ y % 100 # 0) \/ y % 400 = 0

DaysIn(y, m) ==
    IF m = 2 THEN (IF IsLeap(y) THEN 29 ELSE 28)
    ELSE IF m \in {4, 6, 9, 11} THEN 30 ELSE 31

\* time.Parse("2006-01-02", s): fails on a month or day out of range
ParseOK(t) == t[2] \in 1..12 /\ t[3] \in 1..DaysIn(t[1], t[2])

\* ---------------------------------------------------------------- numbers
RECURSIVE Digits(_)
Digits(n) == IF n < 10 THEN <<n>> ELSE Digits(n \div 10) \o <<n % 10>>

RECURSIVE Atoi(_)
Atoi(ds) == IF ds = <<>> THEN 0
            ELSE 10 * Atoi(SubSeq(ds, 1, Len(ds) - 1)) + ds[Len(ds)]

FormatBool(b) == IF b THEN "true" ELSE "false"

\* ---------------------------------------------------------- string helpers
FirstIdx(s, P(_)) ==
    IF \E i \in 1..Len(s) : P(s[i])
    THEN CHOOSE i \in 1..Len(s) : P(s[i]) /\ \A j \in 1..(i - 1) : ~P(s[j])
    ELSE 0

LastIdx(s, P(_)) ==
    IF \E i \in 1..Len(s) : P(s[i])
    THEN CHOOSE i \in 1..Len(s) : P(s[i]) /\ \A j \in (i + 1)..Len(s) : ~P(s[j])
    ELSE 0

IsSp(t) == t.k = "sp"
NotSp(t) == t.k # "sp"

TrimRange(s, a, b) == IF a = 0 THEN <<>> ELSE SubSeq(s, a, b)

\* strings.TrimSpace on a token sequence
TrimSpace(s) == TrimRange(s, FirstIdx(s, NotSp), LastIdx(s, NotSp))

IsBlank(l) == l.h = 0 /\ \A i \in 1..Len(l.toks) : IsSp(l.toks[i])
NotBlank(l) == ~IsBlank(l)

\* a line that is not blank, without its leading / trailing spaces
TrimLeft(l) ==
    IF l.h > 0 THEN l
    ELSE [h |-> 0, toks |-> SubSeq(l.toks, FirstIdx(l.toks, NotSp), Len(l.toks))]

TrimRight(l) == [h |-> l.h, toks |-> SubSeq(l.toks, 1, LastIdx(l.toks, NotSp))]

TrimLines(ls, a, b) ==
    IF a = 0 THEN <<>>
    ELSE IF a = b THEN <<TrimRight(TrimLeft(ls[a]))>>
    ELSE <<TrimLeft(ls[a])>> \o SubSeq(ls, a + 1, b - 1) \o <<TrimRight(ls[b])>>

\* strings.TrimSpace on a text of several lines
TrimSpaceLines(ls) == TrimLines(ls, FirstIdx(ls, NotBlank), LastIdx(ls, NotBlank))

\* strings.HasPrefix(line, "# ")
IsCategoryLine(l) == l.h = 1 /\ Len(l.toks) > 0 /\ IsSp(l.toks[1])

\* strings.HasPrefix(line, "## ") || "### " || "#### "
IsHeader(l) == l.h \in 2..4 /\ Len(l.toks) > 0 /\ IsSp(l.toks[1])

\* ---------------------------------------------------------- metadata codec
IsOpener(t) == t.k \in {"c", "stray", "open"}
IsCloser(t) == t.k \in {"c", "stray"}

\* <!--\s*(.{4});(\d);(\d{4}-\d{2}-\d{2})(?:;(true|false))?\s*-->
MetaMatch(t) == t.k = "c" /\ Len(t.id) = IdLen /\ Len(t.box) = 1

\* the match and its four groups
Submatch(t) == <<t, t.id, t.box, t.due, t.en>>

SubmatchAt(toks, i) == IF i = 0 THEN <<>> ELSE Submatch(toks[i])

\* re.FindStringSubmatch(line): the leftmost match, <<>> when none
FindStringSubmatch(line) == SubmatchAt(line.toks, FirstIdx(line.toks, MetaMatch))

MetadataOf(matches) ==
    IF Len(matches) >= 4
    THEN [id |-> matches[2], box |-> matches[3], due |-> matches[4],
          enabled |-> IF matches[5] # "" THEN matches[5] = "true" ELSE TRUE]
    ELSE [id |-> <<>>, box |-> <<>>, due |-> <<>>, enabled |-> TRUE]

getMetadata(line) == MetadataOf(FindStringSubmatch(line))

\* where the run of spaces that ends before token i starts
SpaceRunStart(toks, i) ==
    CHOOSE a \in 1..i :
        /\ \A b \in a..(i - 1) : IsSp(toks[b])
        /\ (a = 1 \/ ~IsSp(toks[a - 1]))

StripRange(toks, i, j) ==
    IF i = 0 \/ j < i THEN toks
    ELSE SubSeq(toks, 1, SpaceRunStart(toks, i) - 1) \o SubSeq(toks, j + 1, Len(toks))

\* regexp `\s*<!--.*-->` replaced by "": from the spaces before the first
\* opener to the last closer of the line
StripComments(toks) == StripRange(toks, FirstIdx(toks, IsOpener), LastIdx(toks, IsCloser))

initializeMetadata(line, id) ==
    [updatedLine |-> [h |-> line.h,
                      toks |-> StripComments(line.toks)
                                 \o <<Sp, Comment(id, <<0>>, Today, "true", FALSE)>>],
     id |-> id]

\* re.ReplaceAllString(line, updated)
ReplaceAllString(line, updated) ==
    [h |-> line.h,
     toks |-> [i \in 1..Len(line.toks) |->
                 IF MetaMatch(line.toks[i]) THEN updated ELSE line.toks[i]]]

ReplaceId(line, id, matches) ==
    IF Len(matches) >= 4
    THEN [updatedLine |->
            ReplaceAllString(line, Comment(id, matches[3], matches[4], matches[5], FALSE)),
          id |-> id]
    ELSE [updatedLine |->
            [h |-> line.h,
             toks |-> SubSeq(line.toks, 1, LastIdx(line.toks, NotSp))
                        \o <<Sp, Comment(id, <<0>>, Today, "true", FALSE)>>],
          id |-> id]

\* a reassignment that writes a fresh block instead of keeping the schedule
generateNewIdFresh(line, id) == initializeMetadata(line, id)

generateNewId(line, id) == ReplaceId(line, id, FindStringSubmatch(line))

QuestionBefore(line, p) ==
    IF line.h >= 2 /\ Len(line.toks) > 0 /\ IsSp(line.toks[1]) /\ p > 1
    THEN TrimSpace(SubSeq(line.toks, 2, p - 1))
    ELSE <<>>

\* regexp `##\s+(.*)<!--`, then strings.TrimSpace of the group
extractQuestion(line) == QuestionBefore(line, LastIdx(line.toks, IsOpener))

\* -------------------------------------------------------------- card model
\* Card{}: the zero value
ZeroCard == [Id |-> <<>>, Category |-> <<>>, Front |-> <<>>, Back |-> <<>>,
             Box |-> 0, Due |-> ZeroDate, Enabled |-> FALSE]

MetaParses(m) == m.box # <<>> /\ m.due # <<>> /\ ParseOK(m.due)

\* strconv.Atoi(box) and time.Parse(due) both succeed
CardParses(line) == MetaParses(getMetadata(line))

CardOf(m, category, front) ==
    [Id |-> m.id, Category |-> category, Front |-> front,
     Back |-> <<>>, Box |-> Atoi(m.box), Due |-> m.due, Enabled |-> m.enabled]

getCardFromLine(line, category) ==
    CardOf(getMetadata(line), category, extractQuestion(line))

\* ------------------------------------------------------------ file content
\* bufio.Scanner with ScanLines: the lines of the content; a final empty
\* piece (content ending in "\n", or empty content) is not a line
Scan(content) ==
    IF content[Len(content)] = EmptyLine
    THEN SubSeq(content, 1, Len(content) - 1) ELSE content

\* strings.Join(lines, "\n") as content
Join(lines) == IF lines = <<>> THEN <<EmptyLine>> ELSE lines

\* ----------------------------------------------------------- the generator
IdABCD == <<"a", "b", "c", "d">>
IdWXYZ == <<"w", "x", "y", "z">>
IdMNOP == <<"m", "n", "o", "p">>
IdDot == <<"a", ".", "c", "d">>

\* gonanoid.MustGenerate(alphabet, 4): any 4 characters of [0-9A-Za-z]
GenIds == {IdABCD, IdWXYZ, IdMNOP}

\* ----------------------------------------------------------- OpenFile, pass 1
RECURSIVE ResolveCollision(_, _, _, _)

ResolveNext(g, ids, fuel) == ResolveCollision(g.updatedLine, g.id, ids, fuel)

\* the loop left out: the colliding identifier is kept
ResolveCollisionNoLoop(line, id, ids, fuel) == {[updatedLine |-> line, id |-> id]}

\* for ids[id] { line, id = generateNewId(line) }
ResolveCollision(line, id, ids, fuel) ==
    IF id \notin ids THEN {[updatedLine |-> line, id |-> id]}
    ELSE IF fuel = 0 THEN {}
    ELSE UNION { ResolveNext(generateNewId(line, d), ids, fuel - 1) : d \in GenIds }

\* id, _, _, _ := getMetadata(line); if id == "" { initializeMetadata(line) }
Starts(line, id0) ==
    IF id0 = <<>>
    THEN { initializeMetadata(line, d) : d \in GenIds }
    ELSE {[updatedLine |-> line, id |-> id0]}

NormalizeHeader(line, ids) ==
    UNION { ResolveCollision(s.updatedLine, s.id, ids, MaxDraws)
          : s \in Starts(line, getMetadata(line).id) }

RECURSIVE FirstPass(_, _, _)
FirstPass(rest, ids, acc) ==
    IF rest = <<>> THEN {acc}
    ELSE IF IsHeader(Head(rest))
    THEN UNION { FirstPass(Tail(rest), ids \cup {o.id}, Append(acc, o.updatedLine))
               : o \in NormalizeHeader(Head(rest), ids) }
    ELSE FirstPass(Tail(rest), ids, Append(acc, Head(rest)))

\* ----------------------------------------------------------- OpenFile, pass 2
appendCard(st) ==
    [st EXCEPT !.out = Append(st.out, [st.cur EXCEPT !.Back = TrimSpaceLines(st.cur.Back)]),
               !.cur = ZeroCard]

\* if currentCard.Front != "" && currentCard.Back != "" { appendCard() }
Flush(st) ==
    IF st.cur.Front # <<>> /\ st.cur.Back # <<>> THEN appendCard(st) ELSE st

StartCategory(st, l) ==
    [st EXCEPT !.cat = TrimSpace(SubSeq(l.toks, 2, Len(l.toks))), !.readBack = FALSE]

StartCard(st, l) ==
    IF CardParses(l)
    THEN [st EXCEPT !.cur = getCardFromLine(l, st.cat), !.readBack = TRUE]
    ELSE [st EXCEPT !.panic = TRUE]

ExtractStep(st, l) ==
    IF st.panic THEN st
    ELSE IF IsCategoryLine(l) THEN StartCategory(Flush(st), l)
    ELSE IF IsHeader(l) THEN StartCard(Flush(st), l)
    ELSE IF st.readBack THEN [st EXCEPT !.cur.Back = Append(st.cur.Back, l)]
    ELSE st

RECURSIVE ExtractLoop(_, _)
ExtractLoop(st, rest) ==
    IF rest = <<>> THEN st ELSE ExtractLoop(ExtractStep(st, Head(rest)), Tail(rest))

\* if readBack { appendCard() }
FinalFlush(st) == IF ~st.panic /\ st.readBack THEN appendCard(st) ELSE st

ExtractResult(st) == [out |-> st.out, panic |-> st.panic]

\* the header/card extractor over a line sequence: [out, panic]
ExtractCards(lines) ==
    ExtractResult(FinalFlush(ExtractLoop(
        [cur |-> ZeroCard, cat |-> <<>>, readBack |-> FALSE, out |-> <<>>, panic |-> FALSE],
        lines)))

\* what OpenFile leaves: the file written, the cards, the result
Outcome(lines, x) ==
    [disk |-> Join(lines),
     cards |-> IF x.panic THEN <<>> ELSE x.out,
     res |-> IF x.panic THEN "panic" ELSE IF x.out = <<>> THEN "nocards" ELSE "ok"]

\* the cards built from the lines as read, before the metadata pass
OpenFileOutcomesStale(content) ==
    { Outcome(lines, ExtractCards(Scan(content)))
    : lines \in FirstPass(Scan(content), {}, <<>>) }

\* the outcomes of OpenFile on a file content, one per sequence of draws
OpenFileOutcomes(content) ==
    { Outcome(lines, ExtractCards(lines)) : lines \in FirstPass(Scan(content), {}, <<>>) }

\* ------------------------------------------------------------ card updater
\* the identifier interpolated into the pattern: a literal character matches
\* itself, '.' matches any character
RegexIdMatch(pat, id) ==
    Len(pat) = Len(id) /\ \A i \in 1..Len(pat) : pat[i] = "." \/ pat[i] = id[i]

\* <!--\s*ID;\d;\d{4}-\d{2}-\d{2}(?:;(true|false))?\s*-->
UpdateMatch(c, t) == t.k = "c" /\ Len(t.box) = 1 /\ RegexIdMatch(c.Id, t.id)

\* re.ReplaceAllString(md, new) over the whole content
ReplaceAllInFile(content, c, new) ==
    [n \in 1..Len(content) |->
       [h |-> content[n].h,
        toks |-> [i \in 1..Len(content[n].toks) |->
                    IF UpdateMatch(c, content[n].toks[i]) THEN new
                    ELSE content[n].toks[i]]]]

updateCardInFile(content, c) ==
    ReplaceAllInFile(content, c,
                     Comment(c.Id, Digits(c.Box), c.Due, FormatBool(c.Enabled), FALSE))

\* ----------------------------------------------------------- share exporter
\* a header line gets initializeMetadata, any other line passes
ShareLine(l) ==
    IF IsHeader(l) THEN { initializeMetadata(l, d).updatedLine : d \in GenIds } ELSE {l}

RECURSIVE ShareLines(_)
ShareLines(rest) ==
    IF rest = <<>> THEN {<<>>}
    ELSE { <<f>> \o t : f \in ShareLine(Head(rest)), t \in ShareLines(Tail(rest)) }

\* each line is written followed by "\n"
CreateCopyToShare(content) ==
    { ls \o <<EmptyLine>> : ls \in ShareLines(Scan(content)) }

\* --------------------------------------------------------- scheduler queries
\* a card due today not counted as overdue
OverdueStrict(due, today) == Before(due, today)

Overdue(due, today) == Before(due, today) \/ due = today

RECURSIVE ClosestLoop(_, _, _)
ClosestLoop(cs, today, closestDate) ==
    IF cs = <<>> THEN [date |-> closestDate, err |-> FALSE]
    ELSE IF Overdue(Head(cs).Due, today) THEN [date |-> ZeroDate, err |-> TRUE]
    ELSE ClosestLoop(Tail(cs), today,
                     IF IsZero(closestDate) \/ Before(Head(cs).Due, closestDate)
                     THEN Head(cs).Due ELSE closestDate)

FindClosestDate(cs) == ClosestLoop(cs, Today, ZeroDate)


\* ------------------------------------------------------- inputs of the model
D2020 == <<2020, 1, 1>>
D2030 == <<2030, 1, 1>>
D2031 == <<2031, 2, 28>>
BadDate == <<2030, 13, 1>>
Yesterday == <<2026, 11, 4>>
Tomorrow == <<2026, 11, 6>>

Q == Word("Q")

HNone == Line(2, <<Sp, Q>>)
HLegacy == Line(2, <<Sp, Q, Sp, Comment(IdABCD, <<1>>, D2030, "", FALSE)>>)
HFull == Line(3, <<Sp, Q, Sp, Comment(IdABCD, <<4>>, D2020, "false", TRUE)>>)
HDot == Line(2, <<Sp, Q, Sp, Comment(IdDot, <<2>>, D2030, "true", FALSE)>>)
HTwo == Line(2, <<Sp, Q, Sp, Comment(IdABCD, <<1>>, D2030, "", FALSE),
                  Sp, Comment(IdWXYZ, <<4>>, D2020, "false", FALSE)>>)
HNoQ == Line(2, <<Sp, Comment(IdWXYZ, <<1>>, D2030, "", FALSE)>>)
HBadDate == Line(2, <<Sp, Q, Sp, Comment(IdABCD, <<1>>, BadDate, "", FALSE)>>)
HStray == Line(4, <<Sp, Q, Sp, Stray>>)
HWide == Line(2, <<Sp, Q, Sp, Comment(IdABCD, <<1, 0>>, D2031, "true", FALSE)>>)
HOpen == Line(2, <<Sp, Q, Sp, Unclosed(IdWXYZ, <<4>>, D2020, "false")>>)
CatLine == Line(1, <<Sp, Word("Cat")>>)
Answer == Line(0, <<Word("A")>>)
Blank == Line(0, <<Sp>>)
BodyRef == Line(0, <<Word("see"), Sp, Comment(IdABCD, <<1>>, D2030, "", FALSE)>>)

LinePool == {HNone, HLegacy, HFull, HDot, HTwo, HNoQ, HBadDate, HStray, HWide, HOpen,
             CatLine, Answer, EmptyLine, Blank, BodyRef}

\* values the caller of the updater assigns to a card
BoxVals == {3, 10}
DueVals == {D2031}

\* due dates of the card lists given to FindClosestDate
DateVals == {ZeroDate, Yesterday, Today, Tomorrow, D2030}

\* ------------------------------------------------------------------ actions
Init ==
    /\ disk = <<EmptyLine>>
    /\ cards = <<>>
    /\ res = "none"
    /\ last = "edit"
    /\ upd = 0
    /\ nUpd = 0
    /\ share = <<>>
    /\ closest = [date |-> ZeroDate, err |-> FALSE]

\* a person writes one more line into the file, before the program runs
HumanEdit ==
    /\ last = "edit"
    /\ Len(disk) < MaxLines \/ disk = <<EmptyLine>>
    /\ \E l \in LinePool :
         disk' = IF disk = <<EmptyLine>> THEN <<l>> ELSE Append(disk, l)
    /\ UNCHANGED <<cards, res, last, upd, nUpd, share, closest>>

OpenFile ==
    /\ \E o \in OpenFileOutcomes(disk) :
         /\ disk' = o.disk
         /\ cards' = o.cards
         /\ res' = o.res
    /\ last' = "open"
    /\ upd' = 0
    /\ UNCHANGED <<nUpd, share, closest>>

\* the caller sets Box, Due and Enabled of a loaded card and persists it
UpdateCard ==
    /\ last \in {"open", "update"}
    /\ res = "ok"
    /\ nUpd < MaxUpdates
    /\ \E i \in 1..Len(cards), box \in BoxVals, due \in DueVals, en \in BOOLEAN :
         /\ cards' = [cards EXCEPT ![i].Box = box, ![i].Due = due, ![i].Enabled = en]
         /\ disk' = updateCardInFile(disk, cards'[i])
         /\ upd' = i
    /\ last' = "update"
    /\ nUpd' = nUpd + 1
    /\ UNCHANGED <<res, share, closest>>

ShareCopy ==
    /\ last = "edit"
    /\ share' \in CreateCopyToShare(disk)
    /\ last' = "share"
    /\ UNCHANGED <<disk, cards, res, upd, nUpd, closest>>

\* loading files as people wrote them
Next == HumanEdit \/ OpenFile

Spec == Init /\ [][Next]_vars

\* loading, and persisting the cards the caller rescheduled
NextUpdate == HumanEdit \/ OpenFile \/ UpdateCard

SpecUpdate == Init /\ [][NextUpdate]_vars

NextShare == HumanEdit \/ ShareCopy

SpecShare == Init /\ [][NextShare]_vars

\* card lists as the caller filters them out of a session
InitDates ==
    /\ disk = <<EmptyLine>>
    /\ \E n \in 0..MaxCards :
         cards \in [1..n -> {[ZeroCard EXCEPT !.Id = IdABCD, !.Due = d] : d \in DateVals}]
    /\ res = "ok"
    /\ last = "open"
    /\ upd = 0
    /\ nUpd = 0
    /\ share = <<>>
    /\ closest = [date |-> ZeroDate, err |-> FALSE]

Closest ==
    /\ last = "open"
    /\ closest' = FindClosestDate(cards)
    /\ last' = "closest"
    /\ UNCHANGED <<disk, cards, res, upd, nUpd, share>>

NextDates == Closest

SpecDates == InitDates /\ [][NextDates]_vars


\* ------------------------------------------------------------------ claims
Distinct(s) == \A i, j \in 1..Len(s) : i # j => s[i] # s[j]

HeaderIdx(lines) == {i \in 1..Len(lines) : IsHeader(lines[i])}

\* the well-formed metadata comments of a line
MetaIdx(l) == {i \in 1..Len(l.toks) : MetaMatch(l.toks[i])}

DateLE(a, b) == a = b \/ Before(a, b)

\* C1: after a successful OpenFile the identifiers of the cards are pairwise
\* distinct, and so are the identifiers decoded from the header lines of the
\* file as written back.
C1_UniqueIds ==
    (last = "open" /\ res = "ok") =>
        /\ \A i, j \in 1..Len(cards) : i # j => cards[i].Id # cards[j].Id
        /\ \A i, j \in HeaderIdx(Scan(disk)) :
             i # j => getMetadata(Scan(disk)[i]).id # getMetadata(Scan(disk)[j]).id
        /\ \A i \in HeaderIdx(Scan(disk)) : Len(getMetadata(Scan(disk)[i]).id) = IdLen

\* two cards whose headers carried the same identifier, the second reassigned
C1_Witness ==
    /\ last = "open" /\ res = "ok"
    /\ Len(cards) = 2
    /\ cards[1].Id = IdABCD /\ cards[2].Id = IdMNOP
    /\ cards[2].Box = 1 /\ cards[2].Due = D2030

\* C2: a second OpenFile right after an OpenFile leaves the file content and
\* the card sequence as the first load left them.
C2_IdempotentLoad ==
    [][(last = "open" /\ res = "ok" /\ last' = "open")
         => (disk' = disk /\ cards' = cards)]_vars

\* C3 as stated: of the header lines that carry the same identifier before a
\* load, the first keeps it, every later one gets another 4-character
\* identifier, and all keep their box, due and enabled.
C3_FirstKeeps ==
    [][last' = "open" =>
         LET old == Scan(disk)
             H == HeaderIdx(old)
             Same(i) == {j \in H : getMetadata(old[j]).id = getMetadata(old[i]).id}
         IN  \A i \in H :
               (getMetadata(old[i]).id # <<>> /\ Cardinality(Same(i)) > 1) =>
                 LET a == getMetadata(old[i])
                     b == getMetadata(disk'[i])
                 IN  /\ (\A j \in Same(i) : j >= i) => b.id = a.id
                     /\ (\E j \in Same(i) : j < i) => (b.id # a.id /\ Len(b.id) = IdLen)
                     /\ b.box = a.box /\ b.due = a.due /\ b.enabled = a.enabled]_vars

\* C3 (amended): of the header lines that carry the same identifier before a
\* load, every one but the first gets another 4-character identifier, the
\* first keeps it unless the load gave that identifier to an earlier header
\* line (then none keeps it), and all keep their box, due and enabled.
C3_CollisionResolution ==
    [][last' = "open" =>
         LET old == Scan(disk)
             H == HeaderIdx(old)
             Same(i) == {j \in H : getMetadata(old[j]).id = getMetadata(old[i]).id}
         IN  \A i \in H :
               (getMetadata(old[i]).id # <<>> /\ Cardinality(Same(i)) > 1) =>
                 LET a == getMetadata(old[i])
                     b == getMetadata(disk'[i])
                     taken == \E j \in H : j < i /\ getMetadata(disk'[j]).id = a.id
                 IN  /\ (\A j \in Same(i) : j >= i) => (b.id = a.id <=> ~taken)
                     /\ (\E j \in Same(i) : j < i) => b.id # a.id
                     /\ Len(b.id) = IdLen
                     /\ Cardinality({j \in Same(i) : getMetadata(disk'[j]).id = a.id}) <= 1
                     /\ b.box = a.box /\ b.due = a.due /\ b.enabled = a.enabled]_vars

\* two legacy headers that shared an identifier: the first kept it, the second
\* was reassigned and is still a 3-field comment with its box and due
C3_Witness ==
    /\ last = "open"
    /\ Len(disk) >= 2
    /\ disk[1].toks = <<Sp, Q, Sp, Comment(IdABCD, <<1>>, D2030, "", FALSE)>>
    /\ disk[2].toks = <<Sp, Q, Sp, Comment(IdWXYZ, <<1>>, D2030, "", FALSE)>>

\* C4: the Box, Due and Enabled the updater wrote for a card are those of the
\* card with the same Id after the next OpenFile.
C4_UpdateLoadRoundTrip ==
    [][(last = "update" /\ last' = "open") =>
         \E j \in 1..Len(cards') :
            /\ cards'[j].Id = cards[upd].Id
            /\ cards'[j].Box = cards[upd].Box
            /\ cards'[j].Due = cards[upd].Due
            /\ cards'[j].Enabled = cards[upd].Enabled]_vars

\* C5: after OpenFile has rewritten the file, every level-2/3/4 header line
\* carries exactly one well-formed metadata comment.
C5_OneMetadataPerHeader ==
    last = "open" =>
        \A i \in HeaderIdx(Scan(disk)) : Cardinality(MetaIdx(Scan(disk)[i])) = 1

\* C6: every card OpenFile puts into the card list has a non-empty Front and
\* a non-empty Back.
C6_NoEmptyCard ==
    (last = "open" /\ res = "ok") =>
        \A i \in 1..Len(cards) : cards[i].Front # <<>> /\ cards[i].Back # <<>>

\* C7: every header line of the share copy carries a fresh block with box 0,
\* due today, enabled true and an identifier other than the source header's,
\* and no metadata value of the source header remains on the line.
C7_ShareReset ==
    last = "share" =>
        \A i \in HeaderIdx(Scan(disk)) :
            LET src == Scan(disk)[i]
                m == getMetadata(share[i])
            IN  /\ m.box = <<0>> /\ m.due = Today /\ m.enabled
                /\ m.id # <<>>
                /\ \A k \in 1..Len(src.toks) :
                     src.toks[k].k \in {"c", "open"} => m.id # src.toks[k].id
                /\ \A k \in 1..Len(share[i].toks) :
                     share[i].toks[k].k \in {"c", "open"} =>
                        share[i].toks[k] = Comment(m.id, <<0>>, Today, "true", FALSE)

\* C8: FindClosestDate fails exactly when some card is due today or earlier;
\* otherwise it returns the least due date, the zero date for no cards.
C8_ClosestDate ==
    last = "closest" =>
        /\ closest.err <=> \E i \in 1..Len(cards) : DateLE(cards[i].Due, Today)
        /\ (~closest.err /\ cards = <<>>) => closest.date = ZeroDate
        /\ (~closest.err /\ cards # <<>>) =>
              /\ \E i \in 1..Len(cards) : closest.date = cards[i].Due
              /\ \A i \in 1..Len(cards) : DateLE(closest.date, cards[i].Due)

\* a card due exactly today, none due before
C8_Witness ==
    /\ last = "closest" /\ closest.err
    /\ \E i \in 1..Len(cards) : cards[i].Due = Today
    /\ \A i \in 1..Len(cards) : ~Before(cards[i].Due, Today)

\* C9: updateCardInFile changes nothing but the metadata comments whose
\* identifier is the card's, and nothing at all when there is none.
C9_UpdateFrame ==
    [][last' = "update" =>
         LET c == cards'[upd']
         IN  /\ Len(disk') = Len(disk)
             /\ \A n \in 1..Len(disk) :
                  /\ disk'[n].h = disk[n].h
                  /\ Len(disk'[n].toks) = Len(disk[n].toks)
                  /\ \A i \in 1..Len(disk[n].toks) :
                       LET t == disk[n].toks[i]
                       IN  ~(t.k = "c" /\ t.id = c.Id) => disk'[n].toks[i] = t]_vars

\* C10: after a successful OpenFile the card list is what the extractor gives
\* on the lines of the file on disk: each card's Id, Box, Due and Enabled are
\* those decoded from its header line, in file order.
C10_CardsMatchDisk ==
    (last = "open" /\ res = "ok") =>
        /\ cards = ExtractCards(Scan(disk)).out
        /\ \E f \in [1..Len(cards) -> HeaderIdx(Scan(disk))] :
             /\ \A i, j \in 1..Len(cards) : i < j => f[i] < f[j]
             /\ \A i \in 1..Len(cards) :
                  LET m == getMetadata(Scan(disk)[f[i]])
                  IN  /\ cards[i].Id = m.id /\ cards[i].Box = Atoi(m.box)
                      /\ cards[i].Due = m.due /\ cards[i].Enabled = m.enabled

\* a card with a freshly written identifier, in a file that ends in a newline
C10_Witness ==
    /\ last = "open" /\ res = "ok"
    /\ disk[Len(disk)] = EmptyLine
    /\ \E i \in 1..Len(cards) : cards[i].Id = IdMNOP

====
